---- MODULE Spec2Model ----
(***************************************************************************)
(* Model of src/main.rs: the observer type PrintOnDrop, the three          *)
(* single-slot containers MyBox1 (Box), MyBox2 (raw pointer) and MyBox3    *)
(* (raw pointer + PhantomData), and the routines f1, f2, f3 run by main.   *)
(*                                                                         *)
(* Values live in places: the stack slot of a local, a heap block, or the  *)
(* temporary of the statement being executed.  A read through a reference  *)
(* to a stack slot whose storage is dead is undefined behaviour; it is     *)
(* modelled as returning either outcome of the flag (the store made by     *)
(* the destructor may or may not be visible in the dead slot).             *)
(***************************************************************************)
EXTENDS Integers, Sequences, FiniteSets, TLC

\* Number of distinct addresses the global allocator may hand out.
NumAddrs == 3

Addrs == 1..NumAddrs

\* enum State { INVALID, Valid }
State == {"INVALID", "Valid"}

\* The integer held by v1, v2a, v2b, v3.
Thirteen == 13

\* Zero-size marker value (PhantomData<T>): it has no bytes.
PhantomData == <<>>

Routines_sameTupleOrder ==
    << [fn |-> "f1",  decl |-> <<"v1", "_mb1">>,   v |-> "v1",  b |-> "_mb1",
        mb |-> "mb1",  box |-> "MyBox1"],
       [fn |-> "f2a", decl |-> <<"v2a", "_mb2a">>, v |-> "v2a", b |-> "_mb2a",
        mb |-> "mb2a", box |-> "MyBox2"],
       [fn |-> "f2b", decl |-> <<"v2b", "_mb2b">>, v |-> "v2b", b |-> "_mb2b",
        mb |-> "mb2b", box |-> "MyBox2"],
       [fn |-> "f3",  decl |-> <<"v3", "_mb3">>,   v |-> "v3",  b |-> "_mb3",
        mb |-> "mb3",  box |-> "MyBox3"] >>

\* The scopes main runs, in order: f1, the two blocks of f2, f3.  decl is the
\* declaration order of the locals of the scope.
Routines ==
    << [fn |-> "f1",  decl |-> <<"v1", "_mb1">>,   v |-> "v1",  b |-> "_mb1",
        mb |-> "mb1",  box |-> "MyBox1"],
       [fn |-> "f2a", decl |-> <<"v2a", "_mb2a">>, v |-> "v2a", b |-> "_mb2a",
        mb |-> "mb2a", box |-> "MyBox2"],
       [fn |-> "f2b", decl |-> <<"_mb2b", "v2b">>, v |-> "v2b", b |-> "_mb2b",
        mb |-> "mb2b", box |-> "MyBox2"],
       [fn |-> "f3",  decl |-> <<"v3", "_mb3">>,   v |-> "v3",  b |-> "_mb3",
        mb |-> "mb3",  box |-> "MyBox3"] >>

NumRoutines == Len(Routines)

Locals == UNION {{Routines[i].v, Routines[i].b} : i \in 1..NumRoutines}

ObsNames == UNION {{Routines[i].v, Routines[i].mb} : i \in 1..NumRoutines}

VARIABLES
    fn,       \* index of the running scope in Routines; NumRoutines + 1 when main is done
    at,       \* position inside the scope: "let", "assign_v", "assign_mb", "exit"
    ndropped, \* number of locals of the scope already destroyed at scope exit
    stack,    \* stack slot of every local: [storage, init, val]
    heap,     \* heap bytes per address: [allocated, init, val]
    blocks,   \* ledger of the allocator: one entry per alloc call
    out,      \* standard output: the lines printed so far
    log,      \* trace of the memory and print steps, per scope
    obs,      \* per observer name: times constructed, times destroyed, flag
    bad,      \* number of accesses to heap storage that is not allocated
    dangling  \* number of reads of a stack slot whose storage is dead

vars == <<fn, at, ndropped, stack, heap, blocks, out, log, obs, bad, dangling>>

----------------------------------------------------------------------------
\* Formatting ({} and {:?}).

Debug_i32(n) == ToString(n)

Debug_str(s) == "\"" \o s \o "\""

Debug_State(f) == f

\* #[derive(Debug)] of the tuple struct PrintOnDrop(name, inner, flag), with the
\* inner value already formatted.
Debug_PrintOnDrop(p, innerText) ==
    "PrintOnDrop(" \o Debug_str(p.name) \o ", " \o innerText \o ", "
        \o Debug_State(p.flag) \o ")"

\* {:?} of self.1: an i32, or a reference to a PrintOnDrop<i32> as the read
\* through the reference sees it.
Debug_inner(inner, seen) ==
    IF inner[1] = "i32" THEN Debug_i32(inner[2])
    ELSE Debug_PrintOnDrop(seen, Debug_i32(seen.inner[2]))

\* The println! format string of Drop for PrintOnDrop.
DropLine(self, seen) ==
    "drop PrintOnDrop(" \o self.name \o ", " \o Debug_inner(self.inner, seen)
        \o ", " \o Debug_State(self.flag) \o ")"

----------------------------------------------------------------------------
\* The machine state as one record, so that the steps of a handler compose.

NoVal == [name |-> "", inner |-> <<"i32", 0>>, flag |-> "INVALID"]

Mem ==
    [stack |-> stack, heap |-> heap, blocks |-> blocks, out |-> out,
     log |-> log, obs |-> obs, bad |-> bad, dangling |-> dangling,
     tmp |-> NoVal]

Commit(s) ==
    /\ stack' = s.stack
    /\ heap' = s.heap
    /\ blocks' = s.blocks
    /\ out' = s.out
    /\ log' = s.log
    /\ obs' = s.obs
    /\ bad' = s.bad
    /\ dangling' = s.dangling

Fault(s, a) == IF s.heap[a].allocated THEN 0 ELSE 1

\* alloc::alloc(Layout::new::<T>()) returning address a.
alloc(s, a) ==
    [s EXCEPT !.heap[a] = [allocated |-> TRUE, init |-> FALSE, val |-> NoVal],
              !.blocks = Append(@, [fn |-> fn, addr |-> a, released |-> 0]),
              !.log = Append(@, [fn |-> fn, op |-> "alloc", own |-> "-", ref |-> "-"])]

\* ptr::write(p, t)
ptr_write(s, a, t) ==
    [s EXCEPT !.heap[a].init = TRUE,
              !.heap[a].val = t,
              !.bad = @ + Fault(s, a),
              !.log = Append(@, [fn |-> fn, op |-> "write", own |-> "-", ref |-> "-"])]

\* ptr::read(p): a bitwise copy of the pointee into a temporary.
ptr_read(s, a) ==
    [s EXCEPT !.tmp = s.heap[a].val,
              !.bad = @ + Fault(s, a),
              !.log = Append(@, [fn |-> fn, op |-> "read", own |-> "-", ref |-> "-"])]

LastBlock(s, a) ==
    CHOOSE i \in 1..Len(s.blocks) :
        /\ s.blocks[i].addr = a
        /\ \A j \in (i + 1)..Len(s.blocks) : s.blocks[j].addr # a

\* dealloc(p, layout)
dealloc(s, a) ==
    [s EXCEPT !.heap[a].allocated = FALSE,
              !.blocks[LastBlock(s, a)].released = @ + 1,
              !.log = Append(@, [fn |-> fn, op |-> "dealloc", own |-> "-", ref |-> "-"])]

----------------------------------------------------------------------------
\* PrintOnDrop

PrintOnDrop_new(name, t) == [name |-> name, inner |-> t, flag |-> "Valid"]

\* What a read through the reference held in self.1 may return.
Views(s, self) ==
    IF self.inner[1] = "i32" THEN {NoVal}
    ELSE LET slot == s.stack[self.inner[2]]
         IN  IF slot.storage = "live" THEN {slot.val}
             ELSE {[slot.val EXCEPT !.flag = f] : f \in State}

IsDangling(s, self) ==
    /\ self.inner[1] = "ref"
    /\ s.stack[self.inner[2]].storage # "live"

FlagAfterDrop_keep(self) == self.flag

\* self.2 = State::INVALID
FlagAfterDrop(self) == "INVALID"

\* Drop for PrintOnDrop, run on the value self; yields the machine state and
\* the value as the destructor leaves it.
PrintOnDrop_drop(s, self, seen) ==
    [s EXCEPT !.out = Append(@, DropLine(self, seen)),
              !.log = Append(@, [fn |-> fn, op |-> "println", own |-> self.flag,
                                 ref |-> IF self.inner[1] = "ref" THEN seen.flag ELSE "-"]),
              !.dangling = @ + IF IsDangling(s, self) THEN 1 ELSE 0,
              !.obs[self.name].drops = @ + 1,
              !.obs[self.name].flag = FlagAfterDrop(self),
              !.tmp = [self EXCEPT !.flag = FlagAfterDrop(self)]]

\* Construction recorded for the observer ledger.
Born(s, p) ==
    [s EXCEPT !.obs[p.name].news = @ + 1, !.obs[p.name].flag = p.flag]

----------------------------------------------------------------------------
\* MyBox1: Box<T>.  Box::new allocates and moves the value in; the drop glue
\* drops the value in place and then frees the block.

MyBox1_new(s, a, t) == ptr_write(alloc(s, a), a, t)

MyBox1_drop(s, bx, seen) ==
    LET s1 == PrintOnDrop_drop(s, s.heap[bx.v].val, seen)
        s2 == [s1 EXCEPT !.heap[bx.v].val = s1.tmp, !.bad = @ + Fault(s, bx.v)]
    IN  dealloc(s2, bx.v)

\* MyBox2: *const T.

MyBox2_drop_deallocFirst(s, bx, seen) ==
    LET s1 == ptr_read(dealloc(s, bx.v), bx.v)
    IN  PrintOnDrop_drop(s1, s1.tmp, seen)

MyBox2_drop_doubleFree(s, bx, seen) ==
    LET s1 == ptr_read(s, bx.v)
        s2 == PrintOnDrop_drop(s1, s1.tmp, seen)
    IN  dealloc(dealloc(s2, bx.v), bx.v)

MyBox2_new(s, a, t) == ptr_write(alloc(s, a), a, t)

MyBox2_drop(s, bx, seen) ==
    LET s1 == ptr_read(s, bx.v)
        s2 == PrintOnDrop_drop(s1, s1.tmp, seen)
    IN  dealloc(s2, bx.v)

\* MyBox3: *const T and PhantomData<T>.

MyBox3_drop_leak(s, bx, seen) ==
    LET s1 == ptr_read(s, bx.v)
    IN  PrintOnDrop_drop(s1, s1.tmp, seen)

MyBox3_new(s, a, t) == ptr_write(alloc(s, a), a, t)

MyBox3_drop(s, bx, seen) ==
    LET s1 == ptr_read(s, bx.v)
        s2 == PrintOnDrop_drop(s1, s1.tmp, seen)
    IN  dealloc(s2, bx.v)

----------------------------------------------------------------------------
\* Scopes.

Reverse(q) == [i \in 1..Len(q) |-> q[Len(q) + 1 - i]]

DropOrder_declared(decl) == decl

\* Locals of a scope are destroyed in reverse order of declaration.
DropOrder(decl) == Reverse(decl)

Running == fn \in 1..NumRoutines

R == Routines[fn]

FreeAddrs == {a \in Addrs : ~heap[a].allocated}

Init ==
    /\ fn = 1
    /\ at = "let"
    /\ ndropped = 0
    /\ stack = [l \in Locals |-> [storage |-> "none", init |-> FALSE, val |-> NoVal]]
    /\ heap = [a \in Addrs |-> [allocated |-> FALSE, init |-> FALSE, val |-> NoVal]]
    /\ blocks = <<>>
    /\ out = <<>>
    /\ log = <<>>
    /\ obs = [n \in ObsNames |-> [news |-> 0, drops |-> 0, flag |-> "Valid"]]
    /\ bad = 0
    /\ dangling = 0

\* let v; let _mb;   or   let (x, y);
Let ==
    /\ Running /\ at = "let"
    /\ stack' = [l \in Locals |->
                    IF l \in {R.v, R.b}
                    THEN [storage |-> "live", init |-> FALSE, val |-> NoVal]
                    ELSE stack[l]]
    /\ at' = "assign_v"
    /\ UNCHANGED <<fn, ndropped, heap, blocks, out, log, obs, bad, dangling>>

\* v = PrintOnDrop::new("v", 13);
Assign_v ==
    /\ Running /\ at = "assign_v"
    /\ LET p == PrintOnDrop_new(R.v, <<"i32", Thirteen>>)
           s == Born(Mem, p)
       IN  Commit([s EXCEPT !.stack[R.v].init = TRUE, !.stack[R.v].val = p])
    /\ at' = "assign_mb"
    /\ UNCHANGED <<fn, ndropped>>

\* _mb1 = MyBox1::new(PrintOnDrop::new("mb1", &v1));
Assign_mb1 ==
    /\ Running /\ at = "assign_mb" /\ R.box = "MyBox1"
    /\ \E a \in FreeAddrs :
          LET p == PrintOnDrop_new(R.mb, <<"ref", R.v>>)
              s == MyBox1_new(Born(Mem, p), a, p)
          IN  Commit([s EXCEPT !.stack[R.b].init = TRUE,
                               !.stack[R.b].val = [v |-> a]])
    /\ at' = "exit"
    /\ UNCHANGED <<fn, ndropped>>

\* _mb2 = MyBox2::new(PrintOnDrop::new("mb2", &v2));
Assign_mb2 ==
    /\ Running /\ at = "assign_mb" /\ R.box = "MyBox2"
    /\ \E a \in FreeAddrs :
          LET p == PrintOnDrop_new(R.mb, <<"ref", R.v>>)
              s == MyBox2_new(Born(Mem, p), a, p)
          IN  Commit([s EXCEPT !.stack[R.b].init = TRUE,
                               !.stack[R.b].val = [v |-> a]])
    /\ at' = "exit"
    /\ UNCHANGED <<fn, ndropped>>

\* _mb3 = MyBox3::new(PrintOnDrop::new("mb3", &v3));
Assign_mb3 ==
    /\ Running /\ at = "assign_mb" /\ R.box = "MyBox3"
    /\ \E a \in FreeAddrs :
          LET p == PrintOnDrop_new(R.mb, <<"ref", R.v>>)
              s == MyBox3_new(Born(Mem, p), a, p)
          IN  Commit([s EXCEPT !.stack[R.b].init = TRUE,
                               !.stack[R.b].val = [v |-> a, _pd |-> PhantomData]])
    /\ at' = "exit"
    /\ UNCHANGED <<fn, ndropped>>

NextLocal_forward == R.decl[ndropped + 1]

\* The local destroyed next at scope exit.
NextLocal == DropOrder(R.decl)[ndropped + 1]

AtExit == Running /\ at = "exit" /\ ndropped < Len(R.decl)

StorageDead(s, l) == [s EXCEPT !.stack[l].storage = "dead"]

\* Scope exit reaches the observer local: its destructor runs in place.
Exit_PrintOnDrop ==
    /\ AtExit /\ NextLocal = R.v
    /\ LET self == stack[R.v].val
       IN  \E seen \in Views(Mem, self) :
              LET s == PrintOnDrop_drop(Mem, self, seen)
              IN  Commit(StorageDead([s EXCEPT !.stack[R.v].val = s.tmp], R.v))
    /\ ndropped' = ndropped + 1
    /\ UNCHANGED <<fn, at>>

\* Scope exit reaches the container local.
Exit_MyBox1 ==
    /\ AtExit /\ NextLocal = R.b /\ R.box = "MyBox1"
    /\ LET bx == stack[R.b].val
       IN  \E seen \in Views(Mem, heap[bx.v].val) :
              Commit(StorageDead(MyBox1_drop(Mem, bx, seen), R.b))
    /\ ndropped' = ndropped + 1
    /\ UNCHANGED <<fn, at>>

Exit_MyBox2 ==
    /\ AtExit /\ NextLocal = R.b /\ R.box = "MyBox2"
    /\ LET bx == stack[R.b].val
       IN  \E seen \in Views(Mem, heap[bx.v].val) :
              Commit(StorageDead(MyBox2_drop(Mem, bx, seen), R.b))
    /\ ndropped' = ndropped + 1
    /\ UNCHANGED <<fn, at>>

Exit_MyBox3 ==
    /\ AtExit /\ NextLocal = R.b /\ R.box = "MyBox3"
    /\ LET bx == stack[R.b].val
       IN  \E seen \in Views(Mem, heap[bx.v].val) :
              Commit(StorageDead(MyBox3_drop(Mem, bx, seen), R.b))
    /\ ndropped' = ndropped + 1
    /\ UNCHANGED <<fn, at>>

\* The scope is left; main goes on with the next one.
Return ==
    /\ Running /\ at = "exit" /\ ndropped = Len(R.decl)
    /\ fn' = fn + 1
    /\ at' = "let"
    /\ ndropped' = 0
    /\ UNCHANGED <<stack, heap, blocks, out, log, obs, bad, dangling>>

Next ==
    \/ Let
    \/ Assign_v
    \/ Assign_mb1
    \/ Assign_mb2
    \/ Assign_mb3
    \/ Exit_PrintOnDrop
    \/ Exit_MyBox1
    \/ Exit_MyBox2
    \/ Exit_MyBox3
    \/ Return

Spec == Init /\ [][Next]_vars

Done == fn = NumRoutines + 1

----------------------------------------------------------------------------
\* Reading the output and the trace.

\* The drop line of an observer holding the integer.
Line_v(n) == "drop PrintOnDrop(" \o n \o ", 13, Valid)"

\* The drop line of a contained observer that shows flag f for the observer it
\* references.
Line_mb(mb, v, f) ==
    "drop PrintOnDrop(" \o mb \o ", PrintOnDrop(\"" \o v \o "\", 13, " \o f
        \o "), Valid)"

\* The lines that are a drop line of the observer named n with its own flag Valid.
LinesOf(n) ==
    {Line_v(n)} \cup
    UNION {{Line_mb(Routines[i].mb, Routines[i].v, f) : f \in State} :
              i \in {j \in 1..NumRoutines : Routines[j].mb = n}}

Printed(line) == \E k \in 1..Len(out) : out[k] = line

Before(l1, l2) ==
    \E j, k \in 1..Len(out) : j < k /\ out[j] = l1 /\ out[k] = l2

NumLines(n) == Cardinality({k \in 1..Len(out) : out[k] \in LinesOf(n)})

Pos(n) == CHOOSE k \in 1..Len(out) : out[k] \in LinesOf(n)

\* The memory and print steps of scope i, without addresses.
OpsOf(i) ==
    LET inScope(e) == e.fn = i
        sel == SelectSeq(log, inScope)
    IN  [k \in 1..Len(sel) |-> [op |-> sel[k].op, own |-> sel[k].own, ref |-> sel[k].ref]]

IsPrefix(p, q) == Len(p) <= Len(q) /\ \A k \in 1..Len(p) : p[k] = q[k]

\* The scopes whose declaration order lets the referenced observer outlive the
\* container: f1, the first block of f2, f3.
SoundScopes == {1, 2, 4}

\* The scopes that use MyBox2 or MyBox3.
ManualScopes == {i \in 1..NumRoutines : Routines[i].box \in {"MyBox2", "MyBox3"}}

Returned(i) == fn > i

----------------------------------------------------------------------------
\* C1: in f1, the first block of f2 and f3 the contained observer prints its
\* line, showing the referenced observer as Valid, before the referenced
\* observer's own drop line; once the scope has returned both lines are there.
C1_ReferencedOutlivesContainer ==
    \A i \in SoundScopes :
        LET r == Routines[i]
        IN  /\ Printed(Line_v(r.v)) => Before(Line_mb(r.mb, r.v, "Valid"), Line_v(r.v))
            /\ ~Printed(Line_mb(r.mb, r.v, "INVALID"))
            /\ Returned(i) => Printed(Line_v(r.v))

C1_Witness ==
    /\ Done
    /\ Before(Line_mb("mb1", "v1", "Valid"), Line_v("v1"))
    /\ Before(Line_mb("mb2a", "v2a", "Valid"), Line_v("v2a"))
    /\ Before(Line_mb("mb3", "v3", "Valid"), Line_v("v3"))

C3_OneLinePerObserver ==
    /\ \A n \in ObsNames :
          /\ obs[n].news <= 1
          /\ obs[n].drops <= obs[n].news
          /\ NumLines(n) = obs[n].drops
          /\ (obs[n].flag = "Valid") <=> (obs[n].drops = 0)
    /\ \A k \in 1..Len(out) : \E n \in ObsNames : out[k] \in LinesOf(n)
    /\ \A l \in Locals :
          stack[l].init /\ l \in ObsNames =>
              stack[l].val.flag = obs[l].flag
    /\ Done => /\ Len(out) = 8
               /\ \A n \in ObsNames : obs[n].news = 1 /\ NumLines(n) = 1

C3_Witness ==
    /\ Done
    /\ Len(out) = 8
    /\ \A n \in ObsNames : obs[n].flag = "INVALID"

\* C4: every manual container allocates exactly one block in new and releases
\* it exactly once, in its destructor: the block is allocated while the
\* container is alive, and once the scope has returned it is released, once.
C4_OneBlockReleasedOnce ==
    /\ \A k \in 1..Len(blocks) :
          /\ blocks[k].released <= 1
          /\ Returned(blocks[k].fn) => blocks[k].released = 1
          /\ blocks[k].released = 0 => heap[blocks[k].addr].allocated
    /\ \A i \in ManualScopes :
          LET mine == {k \in 1..Len(blocks) : blocks[k].fn = i}
              slot == stack[Routines[i].b]
          IN  /\ Cardinality(mine) = IF slot.init THEN 1 ELSE 0
              /\ \A k \in mine :
                    /\ blocks[k].addr = slot.val.v
                    /\ (blocks[k].released = 0) <=> (slot.storage = "live")

C4_Witness ==
    /\ Done
    /\ \A i \in ManualScopes :
          \E k \in 1..Len(blocks) : blocks[k].fn = i /\ blocks[k].released = 1
    /\ \A a \in Addrs : ~heap[a].allocated

\* C5 as stated: in f1 and f3 the drop lines appear in the order in which the
\* owning variables are declared (v before _mb).
C5_DeclarationOrder ==
    \A i \in {1, 4} :
        Returned(i) => Pos(Routines[i].v) < Pos(Routines[i].mb)

\* C5 amended: in f1 and f3 the drop lines appear in the reverse of the order
\* in which the owning variables are declared: the line of the observer owned
\* by the local declared last comes first.
C5_ReverseDeclarationOrder ==
    \A i \in {1, 4} :
        LET r == Routines[i]
            owned(l) == IF l = r.b THEN r.mb ELSE r.v
        IN  /\ Returned(i) =>
                  /\ NumLines(r.v) = 1 /\ NumLines(r.mb) = 1
                  /\ Pos(owned(r.decl[2])) < Pos(owned(r.decl[1]))
            /\ NumLines(owned(r.decl[1])) > 0 => NumLines(owned(r.decl[2])) > 0

C5_Witness ==
    /\ Done
    /\ Pos("mb1") = 1 /\ Pos("v1") = 2
    /\ Pos("mb3") = 7 /\ Pos("v3") = 8

\* C6: MyBox3 in f3 and MyBox2 in the first block of f2 (same declaration
\* order, same contained value up to names) perform the same sequence of
\* alloc, write, read, println and dealloc steps and print the same flags;
\* the MyBox3 value carries the pointer and no further runtime state.
C6_SameRuntimeBehaviour ==
    /\ IsPrefix(OpsOf(4), OpsOf(2))
    /\ Returned(4) => OpsOf(4) = OpsOf(2)
    /\ stack["_mb3"].init =>
          /\ Len(stack["_mb3"].val._pd) = 0
          /\ stack["_mb3"].val.v \in Addrs
    /\ stack["_mb2a"].init => stack["_mb2a"].val.v \in Addrs

C6_Witness ==
    /\ Done
    /\ Len(OpsOf(4)) = 6
    /\ OpsOf(4)[3].op = "read"
    /\ OpsOf(4)[5].op = "dealloc"

\* C8: in the destructor of a manual container the value is read out and its
\* line printed before the storage is released, and released storage is never
\* read or written.
C8_ReadAndDropBeforeDealloc ==
    /\ bad = 0
    /\ \A i \in ManualScopes :
          LET ops == OpsOf(i)
          IN  \A k \in 1..Len(ops) :
                 ops[k].op = "dealloc" =>
                    /\ k >= 3
                    /\ ops[k - 2].op = "read"
                    /\ ops[k - 1].op = "println"
                    /\ \A j \in (k + 1)..Len(ops) : ops[j].op \notin {"read", "write"}

C8_Witness ==
    /\ fn = 3 /\ at = "exit" /\ ndropped = 2
    /\ OpsOf(3)[Len(OpsOf(3))].op = "dealloc"
    /\ OpsOf(2)[5].op = "dealloc"

\* C9: the drop lines are printed in this order of observer names.
ExpectedOrder == <<"mb1", "v1", "mb2a", "v2a", "v2b", "mb2b", "mb3", "v3">>

C9_DropOrder ==
    /\ Len(out) <= Len(ExpectedOrder)
    /\ \A k \in 1..Len(out) : out[k] \in LinesOf(ExpectedOrder[k])
    /\ Done => Len(out) = Len(ExpectedOrder)

C9_Witness ==
    /\ Done
    /\ out[5] = Line_v("v2b")
    /\ out[6] \in LinesOf("mb2b")

====
